---- MODULE Spec2Model ----
(***************************************************************************)
(* Model of the collage composition core (src/core/collage.py):            *)
(* layout catalog, grid geometry, cell image fitting, caption overlay,     *)
(* border compositing and the compose_collage loop.                        *)
(*                                                                         *)
(* Images are records carrying their size, mode and a description of what  *)
(* their pixels are (PixelOfCell / PixelOfCollage compute single pixels).  *)
(* Spec   runs compose_collage, one loop iteration per step.               *)
(* SpecFn applies the pure catalog and geometry functions to inputs from    *)
(* bounded sets.  SpecCaption runs add_caption_to_image, one iteration of  *)
(* its truncation loop per step (SpecCaptionFair: with weak fairness).     *)
(* SpecApp runs the application's session (src/app.py): generating the     *)
(* creatives and "Publish All", which calls compose_collage.               *)
(***************************************************************************)
EXTENDS Integers, Sequences, FiniteSets, TLC

VARIABLES
    config,        \* LayoutConfig passed to compose_collage
    anchor_image,  \* caller's anchor image
    panels,        \* caller's list of panel images
    thoughts,      \* caller's list of captions
    pc,            \* position in compose_collage
    row, col,      \* loop variables of compose_collage
    panel_index,   \* local panel_index of compose_collage
    cell_size,     \* local cell_size of compose_collage
    collage,       \* the canvas under construction
    cells,         \* cell images built so far, in loop order
    call,          \* SpecFn: the pure function applied and its arguments
    ret,           \* SpecFn: its return value
    generated_creatives  \* SpecApp: st.session_state.generated_creatives

vars == <<config, anchor_image, panels, thoughts, pc, row, col, panel_index,
          cell_size, collage, cells, call, ret, generated_creatives>>

composeVars == <<config, anchor_image, panels, thoughts, pc, row, col,
                 panel_index, cell_size, collage, cells>>

fnVars == <<call, ret>>

appVars == <<generated_creatives>>

----------------------------------------------------------------------------
(* Bounds of the model *)

MaxPadding == 1
MaxBorder == 2
MaxPanels == 4
MaxThoughts == 2
MaxGridDim == 4
MaxFnPadding == 3
MaxFnCanvas == 14
MaxThoughtCount == 10
MaxCaptionLen == 14

----------------------------------------------------------------------------
(* Enumerations and configuration defaults *)

AnchorPosition ==
    {"top_left", "top_right", "bottom_left", "bottom_right",
     "center_left", "center_right", "center"}

LayoutType ==
    {"2x2", "3x3", "2x3", "3x2", "1x3", "1x4", "3x1", "4x1", "featured"}

\* LayoutConfig with the dataclass defaults; callers override fields.
LayoutConfig ==
    [layout_type |-> "2x2",
     anchor_position |-> "top_left",
     padding |-> 4,
     border_width |-> 2,
     border_color |-> <<255, 255, 255>>,
     background_color |-> <<30, 30, 30>>,
     output_size |-> <<1080, 1080>>,
     show_captions |-> FALSE,
     caption_font_size |-> 14,
     caption_color |-> <<255, 255, 255>>,
     caption_bg_opacity |-> 180]

----------------------------------------------------------------------------
(* Layout catalog *)

\* Variant: the fallback of the lookup is the 3x3 grid.
get_layout_grid_Fallback3x3(layout_type) ==
    CASE layout_type = "2x2" -> <<2, 2>>
      [] layout_type = "3x3" -> <<3, 3>>
      [] layout_type = "2x3" -> <<2, 3>>
      [] layout_type = "3x2" -> <<3, 2>>
      [] layout_type = "1x3" -> <<1, 3>>
      [] layout_type = "1x4" -> <<1, 4>>
      [] layout_type = "3x1" -> <<3, 1>>
      [] layout_type = "4x1" -> <<4, 1>>
      [] layout_type = "featured" -> <<2, 2>>
      [] OTHER -> <<3, 3>>

get_layout_grid(layout_type) ==
    CASE layout_type = "2x2" -> <<2, 2>>
      [] layout_type = "3x3" -> <<3, 3>>
      [] layout_type = "2x3" -> <<2, 3>>
      [] layout_type = "3x2" -> <<3, 2>>
      [] layout_type = "1x3" -> <<1, 3>>
      [] layout_type = "1x4" -> <<1, 4>>
      [] layout_type = "3x1" -> <<3, 1>>
      [] layout_type = "4x1" -> <<4, 1>>
      [] layout_type = "featured" -> <<2, 2>>
      [] OTHER -> <<2, 2>>

get_panel_count(layout_type) ==
    LET grid == get_layout_grid(layout_type)
    IN  grid[1] * grid[2]

\* Variant: the anchor's cell is not set aside.
get_required_panel_count_NoAnchor(layout_type) ==
    get_panel_count(layout_type)

get_required_panel_count(layout_type) ==
    get_panel_count(layout_type) - 1

\* Variant: the 2x3 step reaches one count too far.
suggest_layout_LateStep(num_thoughts) ==
    IF num_thoughts <= 1 THEN "2x2"
    ELSE IF num_thoughts <= 2 THEN "1x3"
    ELSE IF num_thoughts <= 3 THEN "2x2"
    ELSE IF num_thoughts <= 6 THEN "2x3"
    ELSE IF num_thoughts <= 8 THEN "3x3"
    ELSE "3x3"

\* Variant: the results of the 2x2 and 2x3 steps exchanged.
suggest_layout_Exchanged(num_thoughts) ==
    IF num_thoughts <= 1 THEN "2x2"
    ELSE IF num_thoughts <= 2 THEN "1x3"
    ELSE IF num_thoughts <= 3 THEN "2x3"
    ELSE IF num_thoughts <= 5 THEN "2x2"
    ELSE IF num_thoughts <= 8 THEN "3x3"
    ELSE "3x3"

suggest_layout(num_thoughts) ==
    IF num_thoughts <= 1 THEN "2x2"
    ELSE IF num_thoughts <= 2 THEN "1x3"
    ELSE IF num_thoughts <= 3 THEN "2x2"
    ELSE IF num_thoughts <= 5 THEN "2x3"
    ELSE IF num_thoughts <= 8 THEN "3x3"
    ELSE "3x3"

----------------------------------------------------------------------------
(* Geometry *)

\* Variant: the bottom-right corner is taken one past the last row and column.
get_anchor_grid_position_OffByOne(anchor_position, rows, cols) ==
    CASE anchor_position = "top_left" -> <<0, 0>>
      [] anchor_position = "top_right" -> <<0, cols - 1>>
      [] anchor_position = "bottom_left" -> <<rows - 1, 0>>
      [] anchor_position = "bottom_right" -> <<rows, cols>>
      [] anchor_position = "center_left" -> <<rows \div 2, 0>>
      [] anchor_position = "center_right" -> <<rows \div 2, cols - 1>>
      [] anchor_position = "center" -> <<rows \div 2, cols \div 2>>
      [] OTHER -> <<0, 0>>

\* Variant: the midpoints are taken as (n - 1) // 2.
get_anchor_grid_position_UpperMid(anchor_position, rows, cols) ==
    CASE anchor_position = "top_left" -> <<0, 0>>
      [] anchor_position = "top_right" -> <<0, cols - 1>>
      [] anchor_position = "bottom_left" -> <<rows - 1, 0>>
      [] anchor_position = "bottom_right" -> <<rows - 1, cols - 1>>
      [] anchor_position = "center_left" -> <<(rows - 1) \div 2, 0>>
      [] anchor_position = "center_right" -> <<(rows - 1) \div 2, cols - 1>>
      [] anchor_position = "center" -> <<(rows - 1) \div 2, (cols - 1) \div 2>>
      [] OTHER -> <<0, 0>>

\* Variant: the fallback of the lookup is the centre cell.
get_anchor_grid_position_FallbackCenter(anchor_position, rows, cols) ==
    CASE anchor_position = "top_left" -> <<0, 0>>
      [] anchor_position = "top_right" -> <<0, cols - 1>>
      [] anchor_position = "bottom_left" -> <<rows - 1, 0>>
      [] anchor_position = "bottom_right" -> <<rows - 1, cols - 1>>
      [] anchor_position = "center_left" -> <<rows \div 2, 0>>
      [] anchor_position = "center_right" -> <<rows \div 2, cols - 1>>
      [] anchor_position = "center" -> <<rows \div 2, cols \div 2>>
      [] OTHER -> <<rows \div 2, cols \div 2>>

get_anchor_grid_position(anchor_position, rows, cols) ==
    CASE anchor_position = "top_left" -> <<0, 0>>
      [] anchor_position = "top_right" -> <<0, cols - 1>>
      [] anchor_position = "bottom_left" -> <<rows - 1, 0>>
      [] anchor_position = "bottom_right" -> <<rows - 1, cols - 1>>
      [] anchor_position = "center_left" -> <<rows \div 2, 0>>
      [] anchor_position = "center_right" -> <<rows \div 2, cols - 1>>
      [] anchor_position = "center" -> <<rows \div 2, cols \div 2>>
      [] OTHER -> <<0, 0>>

\* Variant: padding counted between the cells only, not at the canvas edges.
calculate_cell_size_InnerPadding(output_size, rows, cols, padding) ==
    LET total_padding_x == padding * (cols - 1)
        total_padding_y == padding * (rows - 1)
        cell_width == (output_size[1] - total_padding_x) \div cols
        cell_height == (output_size[2] - total_padding_y) \div rows
    IN  <<cell_width, cell_height>>

\* Python's // floors; so does \div for a positive divisor.
calculate_cell_size(output_size, rows, cols, padding) ==
    LET total_padding_x == padding * (cols + 1)
        total_padding_y == padding * (rows + 1)
        cell_width == (output_size[1] - total_padding_x) \div cols
        cell_height == (output_size[2] - total_padding_y) \div rows
    IN  <<cell_width, cell_height>>

\* Variant: no padding before the first row and column.
get_cell_position_NoEdge(r, c, cellSize, padding) ==
    LET x == c * (cellSize[1] + padding)
        y == r * (cellSize[2] + padding)
    IN  <<x, y>>

\* Variant: the stride from one cell to the next is one pixel short.
get_cell_position_ShortStride(r, c, cellSize, padding) ==
    LET x == padding + c * (cellSize[1] + padding - 1)
        y == padding + r * (cellSize[2] + padding - 1)
    IN  <<x, y>>

get_cell_position(r, c, cellSize, padding) ==
    LET x == padding + c * (cellSize[1] + padding)
        y == padding + r * (cellSize[2] + padding)
    IN  <<x, y>>

----------------------------------------------------------------------------
(* Images *)

\* A caller-supplied image: its size, its mode and an identity for its pixels.
SourceImage(id, size) ==
    [size |-> size, mode |-> "RGB", id |-> id]

\* Pixel value standing for "a pixel of source image id".
SourcePixel(id) == <<100 + id, 100 + id, 100 + id>>

\* Pixels outside the source that Image.crop fills in.
CropFillPixel == <<0, 0, 0>>

\* Pixels of the caption band (black at bg_opacity over the image, with text).
CaptionBandPixel == <<1, 1, 1>>

Exceptions == {"ZeroDivisionError", "ValueError"}

Raise(exc) == [ok |-> FALSE, exc |-> exc]

Return(image) == [ok |-> TRUE, image |-> image]

\* Variant: the colour argument is left out, Image.new fills with black.
NewCellImage_Black(size, color) ==
    [size |-> size, mode |-> "RGB", kind |-> "blank", src |-> -1,
     scaled |-> size, crop |-> <<0, 0>>, fill |-> <<0, 0, 0>>,
     text |-> <<>>, band_top |-> -1, drawn_at |-> <<0, 0>>,
     frame |-> 0, frame_color |-> <<0, 0, 0>>, inner |-> size]

\* Image.new(mode, size, color) for a cell: a solid rectangle.
NewCellImage(size, color) ==
    [size |-> size, mode |-> "RGB", kind |-> "blank", src |-> -1,
     scaled |-> size, crop |-> <<0, 0>>, fill |-> color,
     text |-> <<>>, band_top |-> -1, drawn_at |-> <<0, 0>>,
     frame |-> 0, frame_color |-> color, inner |-> size]

----------------------------------------------------------------------------
(* Cell image fitter *)

\* Python's int() truncates towards zero.
TruncQuot(a, b) ==
    IF a >= 0 THEN a \div b ELSE -((-a) \div b)

\* Arguments <<w, h, t>> for which the double t / (w / h) falls just below
\* the integer t*h/w, so that int() yields one less than the exact quotient
\* (IEEE-754 round-to-nearest, for the source sizes and targets of the model).
FloatDivShort ==
    {<<9, 7, 9>>, <<9, 7, 18>>, <<9, 7, 36>>, <<9, 7, 504>>, <<9, 7, 513>>,
     <<9, 7, 522>>, <<9, 7, 540>>, <<9, 7, 1080>>}

\* Variant: the aspect ratio is left out of the product.
IntMulAspect_Square(t, w, h) == t

\* int(new_height * img_aspect) with img_aspect = w / h
IntMulAspect(t, w, h) == TruncQuot(t * w, h)

\* int(new_width / img_aspect) with img_aspect = w / h
IntDivAspect(t, w, h) ==
    IF <<w, h, t>> \in FloatDivShort
    THEN TruncQuot(t * h, w) - 1
    ELSE TruncQuot(t * h, w)

\* img_aspect > cell_aspect, for target_height # 0
IsWider(w, h, target_width, target_height) ==
    IF target_height > 0
    THEN w * target_height > target_width * h
    ELSE w * target_height < target_width * h

\* Lines 140-161: scale to cover the target, then centre-crop to it.
FitToTarget(image, target_width, target_height) ==
    LET w == image.size[1]
        h == image.size[2]
        wider == IsWider(w, h, target_width, target_height)
        new_height == IF wider THEN target_height
                      ELSE IntDivAspect(target_width, w, h)
        new_width == IF wider THEN IntMulAspect(target_height, w, h)
                     ELSE target_width
        left == (new_width - target_width) \div 2
        top == (new_height - target_height) \div 2
    IN  IF target_height = 0 THEN Raise("ZeroDivisionError")
        ELSE IF new_width <= 0 \/ new_height <= 0 THEN Raise("ValueError")
        ELSE IF target_width < 0 \/ target_height < 0 THEN Raise("ValueError")
        ELSE Return(
            [size |-> <<(left + target_width) - left, (top + target_height) - top>>,
             mode |-> image.mode, kind |-> "image", src |-> image.id,
             scaled |-> <<new_width, new_height>>, crop |-> <<left, top>>,
             fill |-> CropFillPixel,
             text |-> <<>>, band_top |-> -1, drawn_at |-> <<0, 0>>,
             frame |-> 0, frame_color |-> CropFillPixel,
             inner |-> <<target_width, target_height>>])

\* Variant: the border is subtracted once instead of on both sides.
resize_image_to_cell_SingleInset(image, cellSize, border_width) ==
    FitToTarget(image, cellSize[1] - border_width,
                       cellSize[2] - border_width)

resize_image_to_cell(image, cellSize, border_width) ==
    FitToTarget(image, cellSize[1] - 2 * border_width,
                       cellSize[2] - 2 * border_width)

\* Variant: the source is scaled in place (as Image.thumbnail does).
SourceAfterFit_InPlace(image, fit) ==
    IF fit.ok THEN [image EXCEPT !.size = fit.image.scaled] ELSE image

\* Lines 154 and 159: Image.resize and Image.crop return new images; the
\* source object is only read.
SourceAfterFit(image, fit) == image

----------------------------------------------------------------------------
(* Caption overlay *)

Ellipsis == <<".", ".", ".">>

\* draw.textbbox: rendered width and height of a caption in the chosen font
\* (every glyph advances by half the font size).
TextWidth(caption, font_size) == Len(caption) * (font_size \div 2)

TextHeight(caption, font_size) == font_size

\* Variant: the loop goes on however short the caption has become.
ShouldTruncate_NoLengthGuard(caption, text_width, max_width) ==
    text_width > max_width

\* Line 195: text_width > max_width and len(caption) > 10
ShouldTruncate(caption, text_width, max_width) ==
    text_width > max_width /\ Len(caption) > 10

\* Variant: five characters are dropped for the three appended.
TruncateOnce_DropFive(caption) ==
    SubSeq(caption, 1, Len(caption) - 5) \o Ellipsis

\* Line 196: caption[:-4] + "..."
TruncateOnce(caption) ==
    SubSeq(caption, 1, Len(caption) - 4) \o Ellipsis

RECURSIVE TruncateCaption(_, _, _)
TruncateCaption(caption, max_width, font_size) ==
    IF ShouldTruncate(caption, TextWidth(caption, font_size), max_width)
    THEN TruncateCaption(TruncateOnce(caption), max_width, font_size)
    ELSE caption

\* Lines 200-219: the band over the bottom of the image and the centred text.
DrawOverlay(image, text_height, shown, text_width) ==
    LET padding == 6
        bg_top == image.size[2] - text_height - padding * 2 - 5
        text_x == (image.size[1] - text_width) \div 2
        text_y == bg_top + padding
    IN  [image EXCEPT !.mode = "RGB", !.text = shown,
                      !.band_top = bg_top, !.drawn_at = <<text_x, text_y>>]

\* Variant: only the empty caption is skipped.
IsPlaceholder_EmptyOnly(caption) == caption = <<>>

\* Line 172: not caption or caption.startswith("[")
IsPlaceholder(caption) ==
    caption = <<>> \/ caption[1] = "["

add_caption_to_image(image, caption, font_size, text_color, bg_opacity) ==
    IF IsPlaceholder(caption)
    THEN image
    ELSE LET text_height == TextHeight(caption, font_size)
             max_width == image.size[1] - 20
             shown == TruncateCaption(caption, max_width, font_size)
             text_width == TextWidth(shown, font_size)
         IN  DrawOverlay(image, text_height, shown, text_width)

----------------------------------------------------------------------------
(* Border compositor and canvas *)

\* Variant: the frame is allocated without its colour (black).
AddBorder_DefaultColor(cell_image, cellSize, border_width, border_color) ==
    IF cellSize[1] < 0 \/ cellSize[2] < 0
    THEN Raise("ValueError")
    ELSE Return([cell_image EXCEPT !.size = cellSize, !.mode = "RGB",
                                   !.frame = border_width,
                                   !.frame_color = <<0, 0, 0>>,
                                   !.inner = cell_image.size])

\* Variant: the frame is put around the cell instead of inside it.
AddBorder_OuterFrame(cell_image, cellSize, border_width, border_color) ==
    IF cellSize[1] < 0 \/ cellSize[2] < 0
    THEN Raise("ValueError")
    ELSE Return([cell_image EXCEPT !.size = <<cellSize[1] + 2 * border_width,
                                              cellSize[2] + 2 * border_width>>,
                                   !.mode = "RGB",
                                   !.frame = border_width,
                                   !.frame_color = border_color,
                                   !.inner = cell_image.size])

\* Image.new("RGB", cell_size, border_color) then paste(cell_image, (bw, bw))
AddBorder(cell_image, cellSize, border_width, border_color) ==
    IF cellSize[1] < 0 \/ cellSize[2] < 0
    THEN Raise("ValueError")
    ELSE Return([cell_image EXCEPT !.size = cellSize, !.mode = "RGB",
                                   !.frame = border_width,
                                   !.frame_color = border_color,
                                   !.inner = cell_image.size])

\* Variant: width and height exchanged.
NewCollage_Swapped(output_size, color) ==
    [mode |-> "RGB", size |-> <<output_size[2], output_size[1]>>,
     fill |-> color, pastes |-> <<>>]

\* Image.new("RGB", config.output_size, config.background_color)
NewCollage(output_size, color) ==
    [mode |-> "RGB", size |-> output_size, fill |-> color, pastes |-> <<>>]

\* collage.paste(cell_image, (x, y)); pixels outside the canvas are clipped.
Paste(canvas, cell_image, xy) ==
    [canvas EXCEPT !.pastes = Append(@, [at |-> xy, image |-> cell_image])]

NoImage == [mode |-> "none", size |-> <<0, 0>>, fill |-> <<0, 0, 0>>,
            pastes |-> <<>>]

\* The pixel (ix, iy) of a fitted (and possibly captioned) image.
PixelOfFitted(img, ix, iy) ==
    IF img.text # <<>> /\ iy >= img.band_top THEN CaptionBandPixel
    ELSE IF img.kind = "blank" THEN img.fill
    ELSE IF /\ ix + img.crop[1] \in 0..(img.scaled[1] - 1)
            /\ iy + img.crop[2] \in 0..(img.scaled[2] - 1)
         THEN SourcePixel(img.src)
         ELSE CropFillPixel

\* The pixel (ix, iy) of a finished cell image, 0 <= ix < w, 0 <= iy < h.
PixelOfCell(img, ix, iy) ==
    IF img.frame = 0 THEN PixelOfFitted(img, ix, iy)
    ELSE IF /\ ix - img.frame \in 0..(img.inner[1] - 1)
            /\ iy - img.frame \in 0..(img.inner[2] - 1)
         THEN PixelOfFitted(img, ix - img.frame, iy - img.frame)
         ELSE img.frame_color

Covers(p, px, py) ==
    /\ px - p.at[1] \in 0..(p.image.size[1] - 1)
    /\ py - p.at[2] \in 0..(p.image.size[2] - 1)

\* The pixel (px, py) of the canvas: the last paste covering it wins.
PixelOfCollage(canvas, px, py) ==
    LET hits == {i \in 1..Len(canvas.pastes) : Covers(canvas.pastes[i], px, py)}
    IN  IF hits = {} THEN canvas.fill
        ELSE LET last == CHOOSE i \in hits : \A j \in hits : j <= i
                 p == canvas.pastes[last]
             IN  PixelOfCell(p.image, px - p.at[1], py - p.at[2])

----------------------------------------------------------------------------
(* Inputs of compose_collage *)

SourceSizes == <<<<4, 4>>, <<3, 5>>, <<9, 7>>>>

OutputSizes == {<<16, 16>>, <<18, 14>>}

Text(n) == [i \in 1..n |-> "x"]

\* Captions a caller may pass: a long one, an empty one, a bracket marker.
ThoughtPool ==
    <<Text(12), <<>>, <<"[", "n", "]">>, Text(3)>>

Configs ==
    {[LayoutConfig EXCEPT !.layout_type = lt, !.anchor_position = ap,
                          !.padding = pad, !.border_width = bw,
                          !.output_size = out, !.show_captions = sc] :
        lt \in LayoutType, ap \in AnchorPosition, pad \in 0..MaxPadding,
        bw \in 0..MaxBorder, out \in OutputSizes, sc \in BOOLEAN}

SizeOf(k) == SourceSizes[(k % Len(SourceSizes)) + 1]

----------------------------------------------------------------------------
(* compose_collage *)

Rows == get_layout_grid(config.layout_type)[1]

Cols == get_layout_grid(config.layout_type)[2]

AnchorCell == get_anchor_grid_position(config.anchor_position, Rows, Cols)

Raised == pc \in Exceptions

InitFn ==
    /\ call = [fn |-> "none"]
    /\ ret = <<>>

\* app.py line 79: no creatives in the session (None, an empty sequence here).
InitSession == generated_creatives = <<>>

InitCompose ==
    /\ pc = "start"
    /\ row = 0
    /\ col = 0
    /\ panel_index = 0
    /\ cell_size = <<0, 0>>
    /\ collage = NoImage
    /\ cells = <<>>

Init ==
    /\ config \in Configs
    /\ anchor_image = SourceImage(0, SizeOf(0))
    /\ \E n \in 0..MaxPanels :
          panels = [k \in 1..n |-> SourceImage(k, SizeOf(k))]
    /\ \E n \in 0..MaxThoughts :
          thoughts = [i \in 1..n |-> ThoughtPool[((i - 1) % Len(ThoughtPool)) + 1]]
    /\ InitCompose
    /\ InitFn
    /\ InitSession

\* Lines 240-258: resolve the grid, allocate the canvas, size the cells.
Begin ==
    /\ pc = "start"
    /\ collage' = NewCollage(config.output_size, config.background_color)
    /\ cell_size' = calculate_cell_size(config.output_size, Rows, Cols,
                                        config.padding)
    /\ panel_index' = 0
    /\ row' = 0
    /\ col' = 0
    /\ pc' = "loop"
    /\ UNCHANGED <<config, anchor_image, panels, thoughts, cells>>
    /\ UNCHANGED fnVars
    /\ UNCHANGED appVars

\* Variant: the increment is forgotten.
NextPanelIndex_NoIncrement(role, index) == index

\* Variant: the increment is done for every cell, the anchor's included.
NextPanelIndex_Always(role, index) == index + 1

\* Variant: the increment is also done for the cells left blank.
NextPanelIndex_Blank(role, index) ==
    IF role # "anchor" THEN index + 1 ELSE index

\* Line 278: panel_index += 1, only when a panel was placed.
NextPanelIndex(role, index) ==
    IF role = "panel" THEN index + 1 ELSE index

\* Variant: the anchor's label without the bracket marker.
AnchorCaption_Plain(show_captions) ==
    IF show_captions THEN <<"T", "a", "l">> ELSE <<>>

\* Line 270: "[Tal]" if config.show_captions else ""
AnchorCaption(show_captions) ==
    IF show_captions THEN <<"[", "T", "a", "l", "]">> ELSE <<>>

\* Variant: the caption is read after the index was advanced.
CaptionFor_AfterIncrement(index, captions) ==
    IF index + 1 < Len(captions) THEN captions[index + 2] ELSE <<>>

\* Line 277: thoughts[panel_index] if panel_index < len(thoughts) else ""
CaptionFor(index, captions) ==
    IF index < Len(captions) THEN captions[index + 1] ELSE <<>>

\* Variant: the overlay is applied whether or not captions are shown.
CaptionEnabled_Always(show_captions, caption) == caption # <<>>

\* Line 290: config.show_captions and caption
CaptionEnabled(show_captions, caption) ==
    show_captions /\ caption # <<>>

\* Lines 264-287: which image goes in the cell (row, col), and its caption.
SelectCellImage ==
    IF row = AnchorCell[1] /\ col = AnchorCell[2]
    THEN [role |-> "anchor", panel |-> -1,
          fit |-> resize_image_to_cell(anchor_image, cell_size,
                                       config.border_width),
          caption |-> AnchorCaption(config.show_captions)]
    ELSE IF panel_index < Len(panels)
    THEN [role |-> "panel", panel |-> panel_index,
          fit |-> resize_image_to_cell(panels[panel_index + 1], cell_size,
                                       config.border_width),
          caption |-> CaptionFor(panel_index, thoughts)]
    ELSE LET size == <<cell_size[1] - 2 * config.border_width,
                       cell_size[2] - 2 * config.border_width>>
         IN  [role |-> "blank", panel |-> -1,
              fit |-> IF size[1] < 0 \/ size[2] < 0
                      THEN Raise("ValueError")
                      ELSE Return(NewCellImage(size, config.background_color)),
              caption |-> <<>>]

\* Lines 260-313: one iteration of the loop over the grid.
PlaceCell ==
    /\ pc = "loop"
    /\ row < Rows
    /\ LET xy == get_cell_position(row, col, cell_size, config.padding)
           sel == SelectCellImage
           withCaption == CaptionEnabled(config.show_captions, sel.caption)
           captioned ==
               IF withCaption
               THEN add_caption_to_image(sel.fit.image, sel.caption,
                                         config.caption_font_size,
                                         config.caption_color,
                                         config.caption_bg_opacity)
               ELSE sel.fit.image
           withBorder == config.border_width > 0
           bordered ==
               IF withBorder
               THEN AddBorder(captioned, cell_size, config.border_width,
                              config.border_color)
               ELSE Return(captioned)
           stages == <<"fit">> \o (IF withCaption THEN <<"caption">> ELSE <<>>)
                     \o (IF withBorder THEN <<"border">> ELSE <<>>)
                     \o <<"paste">>
       IN  /\ IF ~sel.fit.ok
              THEN /\ pc' = sel.fit.exc
                   /\ UNCHANGED <<row, col, panel_index, collage, cells>>
              ELSE IF ~bordered.ok
              THEN /\ pc' = bordered.exc
                   /\ panel_index' = NextPanelIndex(sel.role, panel_index)
                   /\ UNCHANGED <<row, col, collage, cells>>
              ELSE /\ collage' = Paste(collage, bordered.image, xy)
                   /\ cells' = Append(cells,
                          [row |-> row, col |-> col, role |-> sel.role,
                           panel |-> sel.panel, caption |-> sel.caption,
                           fitted |-> sel.fit.image, image |-> bordered.image,
                           at |-> xy, stages |-> stages])
                   /\ panel_index' = NextPanelIndex(sel.role, panel_index)
                   /\ col' = IF col + 1 < Cols THEN col + 1 ELSE 0
                   /\ row' = IF col + 1 < Cols THEN row ELSE row + 1
                   /\ pc' = "loop"
           /\ anchor_image' =
                  IF sel.role = "anchor"
                  THEN SourceAfterFit(anchor_image, sel.fit)
                  ELSE anchor_image
           /\ panels' =
                  IF sel.role = "panel"
                  THEN [panels EXCEPT ![panel_index + 1] =
                                          SourceAfterFit(@, sel.fit)]
                  ELSE panels
    /\ UNCHANGED <<config, thoughts, cell_size>>
    /\ UNCHANGED fnVars
    /\ UNCHANGED appVars

\* Line 315: return collage.
Finish ==
    /\ pc = "loop"
    /\ row = Rows
    /\ pc' = "done"
    /\ UNCHANGED <<config, anchor_image, panels, thoughts, row, col,
                   panel_index, cell_size, collage, cells>>
    /\ UNCHANGED fnVars
    /\ UNCHANGED appVars

Next == Begin \/ PlaceCell \/ Finish

Spec == Init /\ [][Next]_vars

----------------------------------------------------------------------------
(* SpecFn: the pure functions applied to inputs from bounded sets *)

\* Canvas extents tried: every small one, and the application's 1080.
FnExtents == (1..MaxFnCanvas) \cup {1080}

\* Paddings tried: every small one, and the application's 8.
FnPaddings == (0..MaxFnPadding) \cup {8}

InitIdle ==
    /\ config = LayoutConfig
    /\ anchor_image = SourceImage(0, SourceSizes[1])
    /\ panels = <<>>
    /\ thoughts = <<>>
    /\ pc = "idle"
    /\ row = 0
    /\ col = 0
    /\ panel_index = 0
    /\ cell_size = <<0, 0>>
    /\ collage = NoImage
    /\ cells = <<>>
    /\ InitFn
    /\ InitSession

CallPanelCount ==
    /\ call.fn = "none"
    /\ \E lt \in LayoutType :
        /\ call' = [fn |-> "get_panel_count", layout_type |-> lt]
        /\ ret' = [panel_count |-> get_panel_count(lt),
                   required |-> get_required_panel_count(lt)]
        /\ UNCHANGED composeVars
        /\ UNCHANGED appVars

CallCellSize ==
    /\ call.fn = "none"
    /\ \E w \in FnExtents, tall \in BOOLEAN,
       rows \in 1..MaxGridDim, cols \in 1..MaxGridDim, pad \in FnPaddings :
      LET h == IF tall THEN w ELSE (2 * w) \div 3 + 1 IN
        /\ call' = [fn |-> "calculate_cell_size", output_size |-> <<w, h>>,
                    rows |-> rows, cols |-> cols, padding |-> pad]
        /\ ret' = calculate_cell_size(<<w, h>>, rows, cols, pad)
        /\ UNCHANGED composeVars
        /\ UNCHANGED appVars

\* get_cell_position for a cell of the grid just sized.
CallCellPosition ==
    /\ call.fn = "calculate_cell_size"
    /\ \E r \in 0..(call.rows - 1), c \in 0..(call.cols - 1) :
        /\ call' = [fn |-> "get_cell_position", output_size |-> call.output_size,
                    rows |-> call.rows, cols |-> call.cols,
                    padding |-> call.padding,
                    row |-> r, col |-> c, cell_size |-> ret]
        /\ ret' = get_cell_position(r, c, ret, call.padding)
        /\ UNCHANGED composeVars
        /\ UNCHANGED appVars

CallResize ==
    /\ call.fn = "none"
    /\ \E k \in 1..Len(SourceSizes), cw \in 1..MaxFnCanvas, ch \in 1..MaxFnCanvas,
       bw \in 0..MaxBorder :
        /\ call' = [fn |-> "resize_image_to_cell",
                    image |-> SourceImage(k, SourceSizes[k]),
                    cell_size |-> <<cw, ch>>, border_width |-> bw]
        /\ ret' = resize_image_to_cell(SourceImage(k, SourceSizes[k]),
                                       <<cw, ch>>, bw)
        /\ UNCHANGED composeVars
        /\ UNCHANGED appVars

\* Values a caller may pass that are no member of the enumeration.
UnknownValues == {"unknown", "5x5", ""}

CallLayoutGrid ==
    /\ call.fn = "none"
    /\ \E lt \in LayoutType \cup UnknownValues :
        /\ call' = [fn |-> "get_layout_grid", layout_type |-> lt]
        /\ ret' = get_layout_grid(lt)
        /\ UNCHANGED composeVars
        /\ UNCHANGED appVars

CallAnchorPosition ==
    /\ call.fn = "none"
    /\ \E ap \in AnchorPosition \cup UnknownValues,
          rows \in 1..MaxGridDim, cols \in 1..MaxGridDim :
        /\ call' = [fn |-> "get_anchor_grid_position", anchor_position |-> ap,
                    rows |-> rows, cols |-> cols]
        /\ ret' = get_anchor_grid_position(ap, rows, cols)
        /\ UNCHANGED composeVars
        /\ UNCHANGED appVars

CallSuggestLayout ==
    /\ call.fn = "none"
    /\ \E n \in 0..MaxThoughtCount :
        /\ call' = [fn |-> "suggest_layout", num_thoughts |-> n]
        /\ ret' = suggest_layout(n)
        /\ UNCHANGED composeVars
        /\ UNCHANGED appVars

NextFn ==
    \/ CallPanelCount
    \/ CallCellSize
    \/ CallCellPosition
    \/ CallResize
    \/ CallLayoutGrid
    \/ CallAnchorPosition
    \/ CallSuggestLayout

SpecFn == InitIdle /\ [][NextFn]_vars

----------------------------------------------------------------------------
(* SpecCaption: add_caption_to_image, one iteration of its loop per step *)

Letters ==
    <<"a", "b", "c", "d", "e", "f", "g", "h", "i", "j",
      "k", "l", "m", "n", "o", "p", "q", "r", "s", "t">>

TalLabel == <<"[", "T", "a", "l", "]">>

NeutralScene ==
    <<"[", "n", "e", "u", "t", "r", "a", "l", " ", "s", "c", "e", "n", "e", "]">>

\* Captions tried: every prefix of the alphabet up to MaxCaptionLen, and
\* the two bracket markers the application produces.
Captions ==
    {SubSeq(Letters, 1, n) : n \in 0..MaxCaptionLen} \cup {TalLabel, NeutralScene}

CaptionWidths == {16, 60, 100, 140}

\* Fitted cell images a caption is drawn on.
CaptionImages ==
    {[NewCellImage(<<w, 40>>, CropFillPixel) EXCEPT !.kind = "image", !.src = 1] :
        w \in CaptionWidths}

\* Lines 172-190: the early return, or the first measurement of the text.
EnterCaption ==
    /\ call.fn = "none"
    /\ \E image \in CaptionImages, caption \in Captions, font_size \in {14, 20},
          text_color \in {<<255, 255, 255>>, <<0, 0, 0>>},
          bg_opacity \in {180, 255} :
        /\ call' = [fn |-> "add_caption_to_image", image |-> image,
                    caption |-> caption, font_size |-> font_size,
                    text_color |-> text_color, bg_opacity |-> bg_opacity]
        /\ ret' = IF IsPlaceholder(caption)
                  THEN [pc |-> "returned", image |-> image, caption |-> caption,
                        text_width |-> 0, text_height |-> 0, iterations |-> 0]
                  ELSE [pc |-> "truncate", image |-> image, caption |-> caption,
                        text_width |-> TextWidth(caption, font_size),
                        text_height |-> TextHeight(caption, font_size),
                        iterations |-> 0]
    /\ UNCHANGED composeVars
    /\ UNCHANGED appVars

\* Lines 195-198: one iteration of the truncation loop.
TruncateStep ==
    /\ call.fn = "add_caption_to_image"
    /\ ret.pc = "truncate"
    /\ ShouldTruncate(ret.caption, ret.text_width, ret.image.size[1] - 20)
    /\ ret' = [ret EXCEPT !.caption = TruncateOnce(ret.caption),
                          !.text_width = TextWidth(TruncateOnce(ret.caption),
                                                   call.font_size),
                          !.iterations = @ + 1]
    /\ UNCHANGED call
    /\ UNCHANGED composeVars
    /\ UNCHANGED appVars

\* Lines 200-219: the loop is left, the band and the text are drawn.
DrawCaption ==
    /\ call.fn = "add_caption_to_image"
    /\ ret.pc = "truncate"
    /\ ~ShouldTruncate(ret.caption, ret.text_width, ret.image.size[1] - 20)
    /\ ret' = [ret EXCEPT !.pc = "returned",
                          !.image = DrawOverlay(ret.image, ret.text_height,
                                                ret.caption, ret.text_width)]
    /\ UNCHANGED call
    /\ UNCHANGED composeVars
    /\ UNCHANGED appVars

NextCaption == EnterCaption \/ TruncateStep \/ DrawCaption

SpecCaption == InitIdle /\ [][NextCaption]_vars

\* The function runs to its return: no step of it waits for anything.
SpecCaptionFair == SpecCaption /\ WF_vars(NextCaption)

----------------------------------------------------------------------------
(* SpecApp: the application's session, "Publish All" calling compose_collage *)

\* app.py line 190: the options of the "Creatives" selector.
CreativesOptions == {2, 3, 4}

\* Prompts a user may type (non-empty after strip).
UserPrompts == {Text(3), SubSeq(Letters, 1, 12)}

\* app.py lines 247-254: the prompt itself, then the prompt with one of three
\* fixed suffixes (abbreviated to a blank and a digit).
Variations(base_prompt) ==
    <<base_prompt,
      base_prompt \o <<" ", "1">>,
      base_prompt \o <<" ", "2">>,
      base_prompt \o <<" ", "3">>>>

\* app.py line 260: the size requested for every generated panel.
PanelSize == <<1024, 1024>>

\* generator.py lines 284-333: one GeneratedPanel per thought, in order.
generate_panels(variations) ==
    [i \in 1..Len(variations) |->
        [thought |-> variations[i],
         image |-> SourceImage(i, PanelSize),
         index |-> i - 1]]

\* app.py lines 90-95: the reference image file, opened and converted.
load_tal_image(size) ==
    [SourceImage(0, size) EXCEPT !.mode = "RGBA"]

\* Variant: the row layout is taken whatever the number of creatives.
PublishLayout_AlwaysRow(creatives) == "1x3"

\* app.py line 340: GRID_2X2 if len(panels) == 4 else ROW_1X3
PublishLayout(creatives) ==
    IF Len(creatives) = 4 THEN "2x2" ELSE "1x3"

\* app.py lines 339-344
PublishConfig(creatives) ==
    [LayoutConfig EXCEPT !.layout_type = PublishLayout(creatives),
                         !.output_size = <<1080, 1080>>,
                         !.padding = 8,
                         !.border_width = 0]

\* panels[1:]
AllButFirst(seq) == SubSeq(seq, 2, Len(seq))

\* No call of compose_collage is under way.
AtRest == pc \in {"idle", "done"} \cup Exceptions

\* app.py lines 208-268: "Generate Creatives" with a non-empty prompt.
Generate ==
    /\ AtRest
    /\ \E num_creatives \in CreativesOptions, user_prompt \in UserPrompts :
          generated_creatives' =
              generate_panels(SubSeq(Variations(user_prompt), 1, num_creatives))
    /\ UNCHANGED composeVars
    /\ UNCHANGED fnVars

\* app.py lines 328-332: "Generate More" drops the creatives.
GenerateMore ==
    /\ AtRest
    /\ generated_creatives # <<>>
    /\ generated_creatives' = <<>>
    /\ UNCHANGED composeVars
    /\ UNCHANGED fnVars

\* app.py lines 357-361: "New Prompt" drops the creatives.
NewPrompt ==
    /\ AtRest
    /\ generated_creatives # <<>>
    /\ generated_creatives' = <<>>
    /\ UNCHANGED composeVars
    /\ UNCHANGED fnVars

\* app.py lines 335-350: "Publish All" builds the configuration and calls
\* compose_collage (Begin, PlaceCell and Finish then run the call).
PublishAll ==
    /\ AtRest
    /\ generated_creatives # <<>>
    /\ \E k \in 1..Len(SourceSizes) :
          anchor_image' = load_tal_image(SourceSizes[k])
    /\ config' = PublishConfig(generated_creatives)
    /\ panels' = [i \in 1..Len(AllButFirst(generated_creatives)) |->
                     AllButFirst(generated_creatives)[i].image]
    /\ thoughts' = [i \in 1..Len(AllButFirst(generated_creatives)) |->
                       AllButFirst(generated_creatives)[i].thought]
    /\ pc' = "start"
    /\ row' = 0
    /\ col' = 0
    /\ panel_index' = 0
    /\ cell_size' = <<0, 0>>
    /\ collage' = NoImage
    /\ cells' = <<>>
    /\ UNCHANGED generated_creatives
    /\ UNCHANGED fnVars

NextApp ==
    \/ Generate
    \/ GenerateMore
    \/ NewPrompt
    \/ PublishAll
    \/ Begin
    \/ PlaceCell
    \/ Finish

SpecApp == InitIdle /\ [][NextApp]_vars

----------------------------------------------------------------------------
(* Vocabulary of the properties *)

Min(a, b) == IF a <= b THEN a ELSE b

\* The grid's capacity for panels: every cell but the anchor's.
Capacity == Rows * Cols - 1

\* Linear (row-major) index of the anchor cell.
AnchorLinear == AnchorCell[1] * Cols + AnchorCell[2]

\* The k-th (from 0) non-anchor cell in row-major order, as <<row, col>>.
KthNonAnchor(k) ==
    LET lin == IF k < AnchorLinear THEN k ELSE k + 1
    IN  <<lin \div Cols, lin % Cols>>

\* The pastes of the collage that landed at the origin of cell (r, c).
PastesAtCell(r, c) ==
    {i \in 1..Len(collage.pastes) :
        collage.pastes[i].at = get_cell_position(r, c, cell_size, config.padding)}

\* Target size of the fitted images of this composition.
TargetSize ==
    LET cs == calculate_cell_size(config.output_size, Rows, Cols, config.padding)
    IN  <<cs[1] - 2 * config.border_width, cs[2] - 2 * config.border_width>>

SaneGeometry == TargetSize[1] > 0 /\ TargetSize[2] > 0

\* q = floor(a / b), stated without division
IsFloorQuot(q, a, b) == b * q <= a /\ a < b * (q + 1)

----------------------------------------------------------------------------
(* Properties *)

\* C1: compose_collage places panels[k], for each k below
\* min(len(panels), rows*cols-1), in the k-th non-anchor cell in row-major
\* order; a 2x2 layout with the anchor top-left and exactly 3 panels puts
\* panels 0, 1, 2 at cells (0,1), (1,0), (1,1).
C1_PanelsRowMajor ==
    pc = "done" =>
      /\ \A k \in 0..(Min(Len(panels), Capacity) - 1) :
            LET cell == KthNonAnchor(k)
                at == PastesAtCell(cell[1], cell[2])
            IN  /\ Cardinality(at) = 1
                /\ \A i \in at : /\ collage.pastes[i].image.kind = "image"
                                 /\ collage.pastes[i].image.src = panels[k + 1].id
      /\ (/\ config.layout_type = "2x2"
          /\ config.anchor_position = "top_left"
          /\ Len(panels) = 3)
         => /\ <<cells[2].row, cells[2].col, cells[2].fitted.src>> = <<0, 1, panels[1].id>>
            /\ <<cells[3].row, cells[3].col, cells[3].fitted.src>> = <<1, 0, panels[2].id>>
            /\ <<cells[4].row, cells[4].col, cells[4].fitted.src>> = <<1, 1, panels[3].id>>

C1_Witness ==
    /\ pc = "done"
    /\ config.layout_type = "2x2"
    /\ config.anchor_position = "top_left"
    /\ Len(panels) = 3

\* C2: the image compose_collage returns is an RGB raster whose width and
\* height are exactly config.output_size.
C2_OutputSize ==
    pc = "done" =>
      /\ collage.mode = "RGB"
      /\ collage.size = config.output_size

C2_Witness ==
    /\ pc = "done"
    /\ config.output_size = <<18, 14>>
    /\ config.border_width > 0
    /\ config.padding > 0
    /\ config.show_captions
    /\ Len(panels) > 0
    /\ Len(collage.pastes) = Rows * Cols

\* C3: for every source size and every cell size and border width with
\* positive target dimensions, resize_image_to_cell returns an image of
\* exactly cell_size - 2*border_width on both axes.
C3_FitExactSize ==
    (/\ call.fn = "resize_image_to_cell"
     /\ call.cell_size[1] - 2 * call.border_width > 0
     /\ call.cell_size[2] - 2 * call.border_width > 0)
    => /\ ret.ok
       /\ ret.image.size = <<call.cell_size[1] - 2 * call.border_width,
                             call.cell_size[2] - 2 * call.border_width>>

\* a landscape source fitted to a portrait cell with a border
C3_Witness ==
    /\ call.fn = "resize_image_to_cell"
    /\ call.image.size = <<9, 7>>
    /\ call.cell_size = <<5, 9>>
    /\ call.border_width = 1
    /\ ret.ok
    /\ ret.image.size = <<3, 7>>

\* C4: for every LayoutType member, get_panel_count is rows*cols of
\* get_layout_grid and get_required_panel_count is get_panel_count - 1.
C4_PanelCounts ==
    call.fn = "get_panel_count" =>
      LET grid == get_layout_grid(call.layout_type)
      IN  /\ ret.panel_count = grid[1] * grid[2]
          /\ ret.required = ret.panel_count - 1

C4_Witness ==
    /\ call.fn = "get_panel_count"
    /\ call.layout_type = "2x3"
    /\ ret.panel_count = 6
    /\ ret.required = 5

\* C5: whenever calculate_cell_size yields positive dimensions (w, h),
\* cols*w + padding*(cols+1) <= output width and
\* rows*h + padding*(rows+1) <= output height.
C5_GridWithinCanvas ==
    (/\ call.fn = "calculate_cell_size"
     /\ ret[1] > 0
     /\ ret[2] > 0)
    => /\ call.cols * ret[1] + call.padding * (call.cols + 1) <= call.output_size[1]
       /\ call.rows * ret[2] + call.padding * (call.rows + 1) <= call.output_size[2]

\* a grid that does not divide the canvas evenly
C5_Witness ==
    /\ call.fn = "calculate_cell_size"
    /\ call.output_size = <<14, 10>>
    /\ call.rows = 2
    /\ call.cols = 3
    /\ call.padding = 1
    /\ ret = <<3, 3>>

\* C6: calculate_cell_size returns the floors of (W - padding*(cols+1))/cols
\* and (H - padding*(rows+1))/rows, get_cell_position returns
\* (padding + col*(cellW+padding), padding + row*(cellH+padding)); a
\* 1080x1080 canvas, 2x2 grid and padding 8 give 528x528 cells with origins
\* (8,8), (544,8), (8,544), (544,544).
C6_CellGeometry ==
    /\ call.fn = "calculate_cell_size" =>
          /\ IsFloorQuot(ret[1], call.output_size[1] - call.padding * (call.cols + 1),
                         call.cols)
          /\ IsFloorQuot(ret[2], call.output_size[2] - call.padding * (call.rows + 1),
                         call.rows)
    /\ call.fn = "get_cell_position" =>
          /\ ret[1] = call.padding + call.col * (call.cell_size[1] + call.padding)
          /\ ret[2] = call.padding + call.row * (call.cell_size[2] + call.padding)
    /\ (/\ call.fn \in {"calculate_cell_size", "get_cell_position"}
        /\ call.output_size = <<1080, 1080>>
        /\ call.rows = 2
        /\ call.cols = 2
        /\ call.padding = 8)
       => IF call.fn = "calculate_cell_size"
          THEN ret = <<528, 528>>
          ELSE /\ call.cell_size = <<528, 528>>
               /\ ret = <<IF call.col = 0 THEN 8 ELSE 544,
                          IF call.row = 0 THEN 8 ELSE 544>>

C6_Witness ==
    /\ call.fn = "get_cell_position"
    /\ call.output_size = <<1080, 1080>>
    /\ call.rows = 2
    /\ call.cols = 2
    /\ call.padding = 8
    /\ call.row = 1
    /\ call.col = 1
    /\ ret = <<544, 544>>

\* The pixels of the rectangle of cell (r, c), inset by d on every side.
CellPixels(r, c, d) ==
    LET xy == get_cell_position(r, c, cell_size, config.padding)
    IN  {<<px, py>> \in ((xy[1] + d)..(xy[1] + cell_size[1] - 1 - d))
                        \X ((xy[2] + d)..(xy[2] + cell_size[2] - 1 - d)) : TRUE}

NonAnchorCells ==
    {rc \in (0..(Rows - 1)) \X (0..(Cols - 1)) : rc # AnchorCell}

\* C7 as stated: with an empty panel list, every pixel of every non-anchor
\* cell's rectangle in the returned collage has config.background_color,
\* for every border width.
C7_BlankRectAllBackground ==
    (pc = "done" /\ panels = <<>>) =>
      \A rc \in NonAnchorCells :
        \A p \in CellPixels(rc[1], rc[2], 0) :
            PixelOfCollage(collage, p[1], p[2]) = config.background_color

\* C7 (amended): with an empty panel list, every pixel of every non-anchor
\* cell's rectangle inset by border_width has config.background_color, and
\* the remaining frame of the rectangle, border_width wide, has
\* config.border_color; with border_width = 0 the inset rectangle is the
\* whole rectangle.
C7_BlankInteriorBackground ==
    (pc = "done" /\ panels = <<>>) =>
      \A rc \in NonAnchorCells :
        /\ \A p \in CellPixels(rc[1], rc[2], config.border_width) :
              PixelOfCollage(collage, p[1], p[2]) = config.background_color
        /\ \A p \in CellPixels(rc[1], rc[2], 0)
                      \ CellPixels(rc[1], rc[2], config.border_width) :
              PixelOfCollage(collage, p[1], p[2]) = config.border_color

C7_Witness ==
    /\ pc = "done"
    /\ panels = <<>>
    /\ config.border_width = 2
    /\ config.layout_type = "2x2"
    /\ config.padding = 1
    /\ CellPixels(1, 1, config.border_width) # {}

\* C8: when len(panels) < rows*cols - 1, compose_collage raises nothing
\* (for a geometry with positive target dimensions), and exactly the
\* non-anchor cells after the len(panels)-th one in row-major order are
\* blank cells, with no source image and no caption, even when captions are
\* shown and there are more captions than panels.
C8_FewerPanelsBlank ==
    Len(panels) < Capacity =>
      /\ SaneGeometry => ~Raised
      /\ pc = "done" =>
            \A k \in 0..(Capacity - 1) :
              LET cell == KthNonAnchor(k)
                  at == PastesAtCell(cell[1], cell[2])
              IN  /\ Cardinality(at) = 1
                  /\ \A i \in at :
                       LET img == collage.pastes[i].image
                       IN  IF k < Len(panels)
                           THEN img.kind = "image" /\ img.src = panels[k + 1].id
                           ELSE /\ img.kind = "blank"
                                /\ img.src = -1
                                /\ img.text = <<>>
                                /\ img.fill = config.background_color

C8_Witness ==
    /\ pc = "done"
    /\ config.show_captions
    /\ Len(panels) = 1
    /\ Len(thoughts) = 2
    /\ Capacity = 3
    /\ \E i \in 1..Len(cells) : cells[i].role = "blank"

\* C9: when len(panels) > rows*cols - 1, compose_collage raises nothing (for
\* a geometry with positive target dimensions), uses exactly the first
\* rows*cols - 1 panels, and never reads a panel or caption at an index
\* >= rows*cols - 1.
C9_ExtraPanelsIgnored ==
    Len(panels) > Capacity =>
      /\ SaneGeometry => ~Raised
      /\ panel_index <= Capacity
      /\ \A i \in 1..Len(cells) :
            cells[i].role = "panel" =>
              /\ cells[i].panel \in 0..(Capacity - 1)
              /\ cells[i].fitted.src = panels[cells[i].panel + 1].id
              /\ cells[i].caption \in {<<>>} \cup {thoughts[j] : j \in 1..Min(Len(thoughts), Capacity)}
      /\ pc = "done" =>
            /\ panel_index = Capacity
            /\ {collage.pastes[i].image.src : i \in 1..Len(collage.pastes)}
                 = {anchor_image.id} \cup {panels[k].id : k \in 1..Capacity}

C9_Witness ==
    /\ pc = "done"
    /\ Len(panels) = 4
    /\ Capacity = 2
    /\ config.show_captions
    /\ Len(thoughts) = 2

\* C10: for every layout and anchor position, get_anchor_grid_position
\* returns a cell inside the grid, so that in every composition exactly one
\* grid cell receives the anchor image and all other cells are panel or
\* blank cells.
C10_OneAnchorCell ==
    /\ AnchorCell[1] \in 0..(Rows - 1)
    /\ AnchorCell[2] \in 0..(Cols - 1)
    /\ pc = "done" =>
          /\ Len(cells) = Rows * Cols
          /\ \A i \in 1..Len(cells) :
                IF <<cells[i].row, cells[i].col>> = AnchorCell
                THEN cells[i].role = "anchor" /\ cells[i].image.src = anchor_image.id
                ELSE cells[i].role \in {"panel", "blank"}
                     /\ cells[i].image.src # anchor_image.id
          /\ Cardinality({i \in 1..Len(cells) : cells[i].role = "anchor"}) = 1

C10_Witness ==
    /\ pc = "done"
    /\ config.layout_type = "3x2"
    /\ config.anchor_position = "center_right"
    /\ \E i \in 1..Len(cells) :
          cells[i].role = "anchor" /\ <<cells[i].row, cells[i].col>> = <<1, 1>>

CenterPositions == {"center", "center_left", "center_right"}

\* C11 as stated: for the centre positions the centred axis index is, on a
\* grid with an even number of rows (or columns), the upper (or left) one
\* of the two middle indexes.
C11_CenterBiasTopLeft ==
    (call.fn = "get_anchor_grid_position" /\ call.anchor_position \in CenterPositions)
    => /\ call.rows % 2 = 0 => 2 * ret[1] = call.rows - 2
       /\ (call.anchor_position = "center" /\ call.cols % 2 = 0)
             => 2 * ret[2] = call.cols - 2

\* C11 (amended): for the centre positions the centred axis index is
\* floor(n / 2), and on a grid with an even number of rows (or columns) it
\* is the lower (or right) one of the two middle indexes n/2 - 1 and n/2,
\* i.e. the anchor is biased toward the bottom-right-of-centre cell.
C11_CenterBiasBottomRight ==
    (call.fn = "get_anchor_grid_position" /\ call.anchor_position \in CenterPositions)
    => /\ IsFloorQuot(ret[1], call.rows, 2)
       /\ call.rows % 2 = 0 => 2 * ret[1] = call.rows
       /\ call.anchor_position = "center" =>
             /\ IsFloorQuot(ret[2], call.cols, 2)
             /\ call.cols % 2 = 0 => 2 * ret[2] = call.cols
       /\ call.anchor_position = "center_left" => ret[2] = 0
       /\ call.anchor_position = "center_right" => ret[2] = call.cols - 1

C11_Witness ==
    /\ call.fn = "get_anchor_grid_position"
    /\ call.anchor_position = "center"
    /\ call.rows = 4
    /\ call.cols = 2
    /\ ret = <<2, 1>>

\* The call of add_caption_to_image has returned.
CaptionReturned == call.fn = "add_caption_to_image" /\ ret.pc = "returned"

\* The whole function applied to the arguments of the call.
CaptionResult ==
    add_caption_to_image(call.image, call.caption, call.font_size,
                         call.text_color, call.bg_opacity)

\* C12: add_caption_to_image returns its input image unchanged (pixels,
\* size, mode) whenever the caption is empty or starts with "[", which
\* covers "[Tal]" and "[neutral scene]", for every font size, colour and
\* opacity.
C12_PlaceholderNoOp ==
    (/\ call.fn = "add_caption_to_image"
     /\ (call.caption = <<>> \/ call.caption[1] = "["))
    => /\ ret.pc = "returned"
       /\ ret.iterations = 0
       /\ ret.image = call.image
       /\ CaptionResult = call.image
       /\ \A x \in 0..(call.image.size[1] - 1), y \in 0..(call.image.size[2] - 1) :
             PixelOfCell(ret.image, x, y) = PixelOfCell(call.image, x, y)

C12_Witness ==
    /\ CaptionReturned
    /\ call.caption = NeutralScene
    /\ call.font_size = 20
    /\ call.bg_opacity = 255
    /\ ret.image = call.image

\* C13: for any caption and image width the truncation loop terminates, the
\* caption it ends with is no longer than the original, and for captions of
\* 10 characters or fewer the loop body never runs.
C13_TruncationTerminates ==
    /\ [](call.fn = "add_caption_to_image" =>
            /\ Len(ret.caption) <= Len(call.caption)
            /\ Len(call.caption) <= 10 =>
                  (ret.iterations = 0 /\ ret.caption = call.caption))
    /\ (call.fn = "add_caption_to_image") ~> CaptionReturned

C13_Witness ==
    /\ CaptionReturned
    /\ Len(call.caption) = 14
    /\ call.image.size[1] = 60
    /\ ret.iterations = 4
    /\ Len(ret.caption) = 10

\* C14: the caption text add_caption_to_image finally draws has rendered
\* width <= image.width - 20 and is drawn at a horizontal offset >= 0.
C14_CaptionFitsFrame ==
    (CaptionReturned /\ ret.image.text # <<>>)
    => /\ TextWidth(ret.image.text, call.font_size) <= call.image.size[1] - 20
       /\ ret.image.drawn_at[1] >= 0

\* The records of the cells that received the anchor image.
AnchorCells == {i \in 1..Len(cells) : cells[i].role = "anchor"}

\* The fitted anchor image as pasted when nothing is drawn on it.
PlainAnchorCell ==
    LET fitted == resize_image_to_cell(anchor_image, cell_size,
                                       config.border_width).image
    IN  IF config.border_width > 0
        THEN AddBorder(fitted, cell_size, config.border_width,
                       config.border_color).image
        ELSE fitted

\* C15 as stated: the anchor's caption is not rendered when captions are
\* disabled, and when config.show_captions is true an anchor label is
\* rendered onto the anchor cell (its image differs from the plain fitted
\* anchor image by a caption band).
C15_AnchorLabelRendered ==
    pc = "done" =>
      \A i \in AnchorCells :
        IF config.show_captions
        THEN cells[i].image.text # <<>> /\ cells[i].image # PlainAnchorCell
        ELSE cells[i].image.text = <<>>

\* C15 (amended): the anchor cell's caption is the empty string when
\* captions are disabled and the bracket placeholder "[Tal]" when
\* config.show_captions is true; in neither case is anything rendered onto
\* the anchor cell: its image is the plain fitted anchor image, framed
\* when border_width > 0.
C15_AnchorNeverCaptioned ==
    pc = "done" =>
      \A i \in AnchorCells :
        /\ cells[i].caption = IF config.show_captions THEN TalLabel ELSE <<>>
        /\ cells[i].image.text = <<>>
        /\ cells[i].image = PlainAnchorCell
        /\ \A j \in PastesAtCell(cells[i].row, cells[i].col) :
              collage.pastes[j].image = PlainAnchorCell

C15_Witness ==
    /\ pc = "done"
    /\ config.show_captions
    /\ config.border_width = 0
    /\ \E i \in AnchorCells :
          /\ cells[i].caption = TalLabel
          /\ "caption" \in {cells[i].stages[k] : k \in 1..Len(cells[i].stages)}
          /\ cells[i].image = cells[i].fitted

\* C16: the caption used for the cell holding panels[i] is thoughts[i] when
\* i < len(thoughts) and the empty string otherwise, whatever the anchor
\* position; a captions list shorter than the panel list raises nothing
\* (for a geometry with positive target dimensions).
C16_CaptionSameIndex ==
    /\ \A i \in 1..Len(cells) :
          cells[i].role = "panel" =>
            LET k == cells[i].panel
            IN  /\ cells[i].fitted.src = panels[k + 1].id
                /\ k < Len(thoughts) => cells[i].caption = thoughts[k + 1]
                /\ k >= Len(thoughts) => cells[i].caption = <<>>
                /\ cells[i].image.text # <<>> =>
                      /\ config.show_captions
                      /\ k < Len(thoughts)
                      /\ cells[i].image.text =
                           TruncateCaption(thoughts[k + 1],
                                           cells[i].fitted.size[1] - 20,
                                           config.caption_font_size)
    /\ (Len(thoughts) < Len(panels) /\ SaneGeometry) => ~Raised

C16_Witness ==
    /\ pc = "done"
    /\ config.show_captions
    /\ config.anchor_position = "center"
    /\ Len(thoughts) = 1
    /\ \E i, j \in 1..Len(cells) :
          /\ cells[i].role = "panel" /\ cells[i].panel = 0
          /\ cells[i].caption = thoughts[1] /\ cells[i].image.text # <<>>
          /\ cells[j].role = "panel" /\ cells[j].panel = 1
          /\ cells[j].caption = <<>>

\* Layouts whose capacity holds n panels although it is below that of l.
SmallerLayoutsHolding(n, l) ==
    {k \in LayoutType : /\ get_required_panel_count(k) >= n
                        /\ get_required_panel_count(k) < get_required_panel_count(l)}

LargestCapacity == 8

\* C17 as stated: for every n >= 0, suggest_layout(n) is the smallest
\* supported layout whose capacity is >= n; above the largest capacity it
\* is GRID_3X3.
C17_SmallestLayout ==
    call.fn = "suggest_layout" =>
      IF call.num_thoughts <= LargestCapacity
      THEN /\ get_required_panel_count(ret) >= call.num_thoughts
           /\ SmallerLayoutsHolding(call.num_thoughts, ret) = {}
      ELSE ret = "3x3"

\* C17 (amended): for every n >= 2, suggest_layout(n) is the smallest
\* supported layout whose capacity is >= n, and GRID_3X3 above the largest
\* capacity; for n <= 1 it returns GRID_2X2 (capacity 3), which holds n
\* panels but is not the smallest such layout (ROW_1X3 has capacity 2).
C17_SmallestLayoutFromTwo ==
    call.fn = "suggest_layout" =>
      /\ ret \in LayoutType
      /\ call.num_thoughts <= 1 =>
            /\ ret = "2x2"
            /\ "1x3" \in SmallerLayoutsHolding(call.num_thoughts, ret)
      /\ (2 <= call.num_thoughts /\ call.num_thoughts <= LargestCapacity) =>
            /\ get_required_panel_count(ret) >= call.num_thoughts
            /\ SmallerLayoutsHolding(call.num_thoughts, ret) = {}
      /\ call.num_thoughts > LargestCapacity => ret = "3x3"

C17_Witness ==
    /\ call.fn = "suggest_layout"
    /\ call.num_thoughts = 4
    /\ ret = "2x3"

\* C18 as stated: for all counts m <= n the capacity of suggest_layout(m)
\* is <= the capacity of suggest_layout(n).
C18_Monotonic ==
    call.fn = "suggest_layout" =>
      \A m \in 0..call.num_thoughts :
        get_required_panel_count(suggest_layout(m)) <= get_required_panel_count(ret)

\* C18 (amended): for all counts m <= n, other than m <= 1 with n = 2, the
\* capacity of suggest_layout(m) is <= the capacity of suggest_layout(n);
\* from counts 0 and 1 (capacity 3) to count 2 (capacity 2) it descends.
C18_MonotonicButFirstStep ==
    call.fn = "suggest_layout" =>
      \A m \in 0..call.num_thoughts :
        IF m <= 1 /\ call.num_thoughts = 2
        THEN /\ get_required_panel_count(suggest_layout(m)) = 3
             /\ get_required_panel_count(ret) = 2
        ELSE get_required_panel_count(suggest_layout(m))
               <= get_required_panel_count(ret)

C18_Witness ==
    /\ call.fn = "suggest_layout"
    /\ call.num_thoughts = 6
    /\ get_required_panel_count(ret) = 8
    /\ get_required_panel_count(suggest_layout(5)) = 5

\* C19: get_layout_grid never fails: for a value that is not a key of the
\* table it returns (2, 2), for every LayoutType member that member's
\* (rows, cols), and FEATURED has the same (2, 2) shape as GRID_2X2.
C19_LayoutGridTotal ==
    call.fn = "get_layout_grid" =>
      /\ ret \in (1..4) \X (1..4)
      /\ call.layout_type \notin LayoutType => ret = <<2, 2>>
      /\ call.layout_type = "2x2" => ret = <<2, 2>>
      /\ call.layout_type = "3x3" => ret = <<3, 3>>
      /\ call.layout_type = "2x3" => ret = <<2, 3>>
      /\ call.layout_type = "3x2" => ret = <<3, 2>>
      /\ call.layout_type = "1x3" => ret = <<1, 3>>
      /\ call.layout_type = "1x4" => ret = <<1, 4>>
      /\ call.layout_type = "3x1" => ret = <<3, 1>>
      /\ call.layout_type = "4x1" => ret = <<4, 1>>
      /\ call.layout_type = "featured" => ret = get_layout_grid("2x2")

C19_Witness ==
    /\ call.fn = "get_layout_grid"
    /\ call.layout_type = "5x5"
    /\ ret = <<2, 2>>

\* C20: get_anchor_grid_position never fails: for a value that is not one
\* of the seven AnchorPosition members it returns (0, 0), for any
\* rows, cols >= 1.
C20_UnknownAnchorTopLeft ==
    (/\ call.fn = "get_anchor_grid_position"
     /\ call.anchor_position \notin AnchorPosition)
    => ret = <<0, 0>>

C20_Witness ==
    /\ call.fn = "get_anchor_grid_position"
    /\ call.anchor_position = "unknown"
    /\ call.rows = 3
    /\ call.cols = 4
    /\ ret = <<0, 0>>

\* C21: compose_collage and every transform it runs leave the caller's
\* anchor image, every image in panels, the thoughts list and the config
\* unchanged: no step of the composition alters any of them.
C21_CallerInputsUnchanged ==
    [][/\ anchor_image' = anchor_image
       /\ panels' = panels
       /\ thoughts' = thoughts
       /\ config' = config]_vars

C21_Witness ==
    /\ pc = "done"
    /\ config.show_captions
    /\ config.border_width = 2
    /\ Len(panels) = 3
    /\ Len(thoughts) = 2
    /\ anchor_image = SourceImage(0, SizeOf(0))
    /\ \A k \in 1..3 : panels[k] = SourceImage(k, SizeOf(k))
    /\ \E i \in 1..Len(cells) :
          cells[i].role = "panel" /\ cells[i].image.text # <<>>
                                  /\ cells[i].fitted.scaled # panels[cells[i].panel + 1].size

\* C22: whenever border_width > 0, for every cell kind (anchor, panel,
\* blank, captioned or not) the image pasted into the border frame measures
\* exactly cell_size - 2*border_width on both axes and sits at offset
\* (border_width, border_width) in a new cell_size image of the border
\* colour, so the bordered cell is exactly cell_size (528x528 cells with
\* border 4: fitted image 520x520, bordered cell 528x528); with
\* border_width = 0 no frame is created.
C22_BorderedCellExact ==
    /\ \A i \in 1..Len(cells) :
          LET c == cells[i]
              bw == config.border_width
          IN  IF bw > 0
              THEN /\ c.fitted.size = <<cell_size[1] - 2 * bw,
                                        cell_size[2] - 2 * bw>>
                   /\ c.image.inner = c.fitted.size
                   /\ c.image.frame = bw
                   /\ c.image.frame_color = config.border_color
                   /\ c.image.size = cell_size
                   /\ i = Len(cells) =>
                         \A x \in 0..(cell_size[1] - 1), y \in 0..(cell_size[2] - 1) :
                            (x < bw \/ y < bw \/ x >= cell_size[1] - bw
                                             \/ y >= cell_size[2] - bw)
                            => PixelOfCell(c.image, x, y) = config.border_color
              ELSE /\ c.image.frame = 0
                   /\ c.image.size = c.fitted.size
                   /\ c.image.size = cell_size
    /\ LET cs == calculate_cell_size(<<1080, 1080>>, 2, 2, 8)
           fit == resize_image_to_cell(SourceImage(1, SourceSizes[1]), cs, 4)
           framed == AddBorder(fit.image, cs, 4, LayoutConfig.border_color)
       IN  /\ cs = <<528, 528>>
           /\ fit.ok
           /\ fit.image.size = <<520, 520>>
           /\ framed.ok
           /\ framed.image.size = <<528, 528>>
           /\ framed.image.inner = <<520, 520>>
           /\ framed.image.frame = 4

C22_Witness ==
    /\ pc = "done"
    /\ config.border_width = 2
    /\ config.show_captions
    /\ {cells[i].role : i \in 1..Len(cells)} = {"anchor", "panel", "blank"}
    /\ \E i \in 1..Len(cells) : cells[i].image.text # <<>>
    /\ \E i \in 1..Len(cells) :
          cells[i].role = "panel" /\ cells[i].image.text = <<>>
    /\ \A i \in 1..Len(cells) :
          cells[i].image.size = cell_size /\ cells[i].image.inner[1] = cell_size[1] - 4

\* The pixel rectangle a paste writes, as <<left, top, right, bottom>>
\* (right and bottom exclusive).
PasteRect(p) ==
    <<p.at[1], p.at[2], p.at[1] + p.image.size[1], p.at[2] + p.image.size[2]>>

RectsDisjoint(a, b) ==
    a[3] <= b[1] \/ b[3] <= a[1] \/ a[4] <= b[2] \/ b[4] <= a[2]

\* First and last pixel coordinate of a rectangle on an axis (1: x, 2: y);
\* two rectangles of the same size that overlap share one of these corners.
RectEdges(rect, axis) == {rect[axis], rect[axis + 2] - 1}

\* The canvas with its pastes applied in the opposite order.
PastesReversed(canvas) ==
    [canvas EXCEPT !.pastes =
        [i \in 1..Len(canvas.pastes) |->
            canvas.pastes[Len(canvas.pastes) + 1 - i]]]

\* C23: for any layout, padding >= 0 and output size yielding positive cell
\* dimensions, the rectangles pasted for two distinct grid cells are
\* disjoint and each lies inside the canvas, so the collage is the same in
\* whatever order the per-cell pastes are applied.
C23_PastesDisjoint ==
    (config.padding >= 0 /\ cell_size[1] > 0 /\ cell_size[2] > 0 /\ pc # "start")
    => /\ \A i \in 1..Len(collage.pastes) :
             LET a == PasteRect(collage.pastes[i])
             IN  /\ a[1] >= 0 /\ a[2] >= 0
                 /\ a[1] < a[3] /\ a[2] < a[4]
                 /\ a[3] <= collage.size[1] /\ a[4] <= collage.size[2]
                 /\ \A j \in 1..Len(collage.pastes) :
                       i # j => RectsDisjoint(a, PasteRect(collage.pastes[j]))
       /\ \A i, j \in 1..Len(cells) :
             (cells[i].row = cells[j].row /\ cells[i].col = cells[j].col)
             => i = j
       /\ pc = "done" =>
             \A i \in 1..Len(collage.pastes) :
                \A px \in RectEdges(PasteRect(collage.pastes[i]), 1),
                   py \in RectEdges(PasteRect(collage.pastes[i]), 2) :
                   PixelOfCollage(PastesReversed(collage), px, py)
                     = PixelOfCollage(collage, px, py)

C23_Witness ==
    /\ pc = "done"
    /\ config.padding = 0
    /\ config.layout_type = "3x3"
    /\ config.output_size = <<18, 14>>
    /\ Len(collage.pastes) = 9
    /\ \E i, j \in 1..9 :
          /\ PasteRect(collage.pastes[i])[3] = PasteRect(collage.pastes[j])[1]
          /\ PasteRect(collage.pastes[i])[2] = PasteRect(collage.pastes[j])[2]

\* The call of resize_image_to_cell has returned an image.
ResizeReturned == call.fn = "resize_image_to_cell" /\ ret.ok

\* Target size of the call of resize_image_to_cell.
CallTarget ==
    <<call.cell_size[1] - 2 * call.border_width,
      call.cell_size[2] - 2 * call.border_width>>

\* C24: when the source is relatively wider than the target the scaled image
\* has height = target height and width >= target width, otherwise width =
\* target width and height >= target height; hence for every source size
\* and positive target size the centre-crop box lies entirely inside the
\* scaled image.
C24_CropInsideScaled ==
    (ResizeReturned /\ CallTarget[1] > 0 /\ CallTarget[2] > 0)
    => LET target == CallTarget
           scaled == ret.image.scaled
           crop == ret.image.crop
           wider == call.image.size[1] * target[2] > target[1] * call.image.size[2]
       IN  /\ IF wider
              THEN scaled[2] = target[2] /\ scaled[1] >= target[1]
              ELSE scaled[1] = target[1] /\ scaled[2] >= target[2]
           /\ crop[1] >= 0
           /\ crop[2] >= 0
           /\ crop[1] + target[1] <= scaled[1]
           /\ crop[2] + target[2] <= scaled[2]

\* C25 as stated: for every source size and target size the scaled
\* (pre-crop) image has exactly the aspect ratio of the source:
\* new_width * source_height = new_height * source_width.
C25_ExactAspect ==
    ResizeReturned
    => ret.image.scaled[1] * call.image.size[2]
         = ret.image.scaled[2] * call.image.size[1]

\* C25, amended: one scaled dimension is the target's and the other is the
\* proportional value rounded down to whole pixels, at most one pixel
\* below the exactly proportional value and never above it.
C25_AspectWithinOnePixel ==
    ResizeReturned
    => LET w == call.image.size[1]
           h == call.image.size[2]
           target == CallTarget
           new_width == ret.image.scaled[1]
           new_height == ret.image.scaled[2]
       IN  IF w * target[2] > target[1] * h
           THEN /\ new_height = target[2]
                /\ new_width * h <= new_height * w
                /\ new_height * w <= (new_width + 1) * h
           ELSE /\ new_width = target[1]
                /\ new_height * w <= new_width * h
                /\ new_width * h <= (new_height + 1) * w

C25_Witness ==
    /\ ResizeReturned
    /\ call.image.size = <<3, 5>>
    /\ CallTarget = <<4, 4>>
    /\ ret.image.scaled = <<4, 6>>
    /\ ret.image.scaled[1] * 5 # ret.image.scaled[2] * 3

\* The stage sequences a cell may go through.
StageOrders ==
    {<<"fit", "paste">>, <<"fit", "caption", "paste">>,
     <<"fit", "border", "paste">>, <<"fit", "caption", "border", "paste">>}

StagesOf(c) == {c.stages[k] : k \in 1..Len(c.stages)}

\* C26: for each cell compose_collage runs fit -> caption overlay -> border
\* -> paste in this order; the overlay runs only if show_captions is true
\* and the cell's caption is non-empty, the border stage only if
\* border_width > 0, the caption is drawn on the un-bordered fitted image
\* and never on the frame, and the cell is pasted after all its stages.
C26_StageOrder ==
    /\ Len(collage.pastes) = Len(cells)
    /\ \A i \in 1..Len(cells) :
          LET c == cells[i]
              bw == config.border_width
          IN  /\ c.stages \in StageOrders
              /\ "caption" \in StagesOf(c)
                    <=> (config.show_captions /\ c.caption # <<>>)
              /\ "caption" \notin StagesOf(c) => c.image.text = <<>>
              /\ "border" \in StagesOf(c) <=> bw > 0
              /\ "border" \in StagesOf(c) <=> c.image.frame > 0
              /\ c.image.text # <<>> =>
                    /\ c.image.band_top
                         = c.fitted.size[2] - config.caption_font_size - 17
                    /\ c.image.inner = c.fitted.size
                    /\ i = Len(cells) =>
                         \A x \in 0..(c.image.size[1] - 1),
                            y \in 0..(c.image.size[2] - 1) :
                            IF /\ x - bw \in 0..(c.fitted.size[1] - 1)
                               /\ y - bw \in 0..(c.fitted.size[2] - 1)
                            THEN (y - bw >= c.image.band_top
                                  => PixelOfCell(c.image, x, y) = CaptionBandPixel)
                            ELSE PixelOfCell(c.image, x, y) = config.border_color
              /\ collage.pastes[i] = [at |-> c.at, image |-> c.image]

C26_Witness ==
    /\ pc = "done"
    /\ config.border_width = 1
    /\ {cells[i].stages : i \in 1..Len(cells)}
         = {<<"fit", "border", "paste">>, <<"fit", "caption", "border", "paste">>}
    /\ \E i \in 1..Len(cells) :
          cells[i].role = "anchor" /\ "caption" \in StagesOf(cells[i])
    /\ \E i \in 1..Len(cells) :
          cells[i].role = "panel" /\ cells[i].image.text # <<>>

\* C27: for degenerate geometry (padding or border so large that
\* cell_size - 2*border_width is <= 0 on an axis) the core does not throw:
\* the target is clamped to at least 1 pixel, and compose_collage returns a
\* collage for every padding >= 0 and border_width >= 0.
C27_DegenerateClamped ==
    (config.padding >= 0 /\ config.border_width >= 0)
    => /\ ~Raised
       /\ \A i \in 1..Len(cells) :
             cells[i].fitted.size[1] >= 1 /\ cells[i].fitted.size[2] >= 1

\* Number of non-anchor cells the loop has visited.
NonAnchorVisited ==
    Cardinality({i \in 1..Len(cells) : cells[i].role # "anchor"})

\* C28: throughout the loop panel_index equals min(len(panels), number of
\* non-anchor cells already visited); it only ever increases, by exactly 1
\* per panel placed, never exceeds min(len(panels), rows*cols - 1), and
\* each of the rows*cols grid cells is pasted into exactly once.
C28_PanelIndexInvariant ==
    /\ [](/\ panel_index = Min(Len(panels), NonAnchorVisited)
          /\ panel_index <= Min(Len(panels), Capacity)
          /\ Len(collage.pastes) = Len(cells)
          /\ \A i, j \in 1..Len(cells) :
                (cells[i].row = cells[j].row /\ cells[i].col = cells[j].col)
                => i = j
          /\ pc = "done" =>
                \A r \in 0..(Rows - 1), c \in 0..(Cols - 1) :
                   /\ Cardinality({i \in 1..Len(cells) :
                         cells[i].row = r /\ cells[i].col = c}) = 1
                   /\ Cardinality(PastesAtCell(r, c)) = 1)
    /\ [][\/ panel_index' = panel_index
          \/ /\ panel_index' = panel_index + 1
             /\ cells' = Append(cells, cells'[Len(cells')])
             /\ cells'[Len(cells')].role = "panel"
             /\ cells'[Len(cells')].panel = panel_index]_vars

C28_Witness ==
    /\ pc = "done"
    /\ config.layout_type = "3x3"
    /\ config.anchor_position = "center"
    /\ Len(panels) = 3
    /\ panel_index = 3
    /\ NonAnchorVisited = 8

\* C29: if the truncation loop runs k >= 1 iterations on a caption of
\* length n, the resulting caption is the first n-3-k characters of the
\* original followed by exactly one "..." (length n-k, never below 10);
\* earlier ellipses do not accumulate and only a suffix of the original is
\* removed.
C29_TruncatedShape ==
    (call.fn = "add_caption_to_image" /\ ret.iterations >= 1)
    => LET n == Len(call.caption)
           k == ret.iterations
       IN  /\ ret.caption = SubSeq(call.caption, 1, n - 3 - k) \o Ellipsis
           /\ Len(ret.caption) = n - k
           /\ Len(ret.caption) >= 10
           /\ CaptionReturned =>
                 /\ ret.image.text = ret.caption
                 /\ CaptionResult.text = ret.caption

C29_Witness ==
    /\ CaptionReturned
    /\ call.caption = SubSeq(Letters, 1, 14)
    /\ call.image.size[1] = 100
    /\ call.font_size = 14
    /\ ret.iterations = 3
    /\ ret.image.text = <<"a", "b", "c", "d", "e", "f", "g", "h", ".", ".", ".">>

\* A call of compose_collage made by "Publish All" is under way or over.
Published == pc # "idle"

\* C30: in the application's "Publish All", for every selectable number of
\* creatives (2, 3 or 4) the number of panels passed to compose_collage
\* (all creatives but the first) never exceeds get_required_panel_count of
\* the layout chosen (GRID_2X2 for 4 creatives, ROW_1X3 otherwise), so no
\* passed panel is dropped from the published collage.
C30_PublishAllKeepsPanels ==
    /\ generated_creatives # <<>> =>
          /\ Len(generated_creatives) \in CreativesOptions
          /\ Len(AllButFirst(generated_creatives))
               <= get_required_panel_count(PublishLayout(generated_creatives))
    /\ Published =>
          /\ Len(panels) \in {n - 1 : n \in CreativesOptions}
          /\ config.layout_type = (IF Len(panels) = 3 THEN "2x2" ELSE "1x3")
          /\ Len(panels) <= get_required_panel_count(config.layout_type)
          /\ ~Raised
          /\ pc = "done" =>
                /\ panel_index = Len(panels)
                /\ \A k \in 1..Len(panels) :
                      \E i \in 1..Len(cells) :
                         /\ cells[i].role = "panel"
                         /\ cells[i].panel = k - 1
                         /\ cells[i].fitted.src = panels[k].id
                         /\ collage.pastes[i].image.src = panels[k].id

C30_Witness ==
    /\ pc = "done"
    /\ Len(generated_creatives) = 4
    /\ Len(panels) = 3
    /\ config.layout_type = "2x2"
    /\ config.output_size = <<1080, 1080>>
    /\ cell_size = <<528, 528>>
    /\ panel_index = 3
    /\ {cells[i].role : i \in 1..Len(cells)} = {"anchor", "panel"}

====
